---------------------------- MODULE Spec2Model ----------------------------
(***************************************************************************)
(* A model of two adapters of the Gazebo simulator:                        *)
(*                                                                         *)
(*   - SimbodyModel::Init (gazebo/physics/simbody/SimbodyModel.cc), which  *)
(*     initialises the children, the grippers, the physics engine's view   *)
(*     of the model and the joints, and then publishes the joint messages; *)
(*   - Visual (the Ogre visual class), which mutates one scene node of the *)
(*     rendering engine (Part 2), and what a visual reaches beyond its     *)
(*     node: the scene graph and the selection object the visuals of a     *)
(*     scene share, the mesh managers, the pre-render signal and the scene *)
(*     nodes of the scene manager (Part 3).                                *)
(*                                                                         *)
(* SimbodyModel and Visual share no state.  Each group of calls has its    *)
(* own specification.                                                      *)
(***************************************************************************)
EXTENDS Integers, Sequences, FiniteSets, TLC

(***************************************************************************)
(* Bounds of the model.                                                    *)
(***************************************************************************)
\* the longest children list of the top-level model
MaxChildren == 2
\* the largest number of joints of the top-level model
MaxJoints == 2
\* the largest number of grippers of a model
MaxGrippers == 1

(***************************************************************************)
(* Part 1.  SimbodyModel                                                   *)
(*                                                                         *)
(* Models are numbered: 0 is the model Init is called on from outside, and *)
(* k >= 1 is the nested model that is the k-th child of model 0 (when that *)
(* child has type MODEL).  Nested models have no MODEL children of their   *)
(* own.                                                                    *)
(***************************************************************************)
VARIABLES
  children,      \* children[m]: the sequence of the types of m's children
  grippers,      \* grippers[m]: the number of grippers of m
  joints,        \* joints[m]: the number of joints of m (the joints list 1..n)
  isSimbody,     \* the world's physics engine is a SimbodyPhysics
  relativePose,  \* relativePose[m]: "unset" or the pose recorded by Init
  initialRelativePose,
  jointPub,      \* jointPub[m]: the joint messages published, oldest first
  stack,         \* the running calls of SimbodyModel::Init, innermost last
  trace          \* what the running call has invoked so far, in order

simVars == <<children, grippers, joints, isSimbody, relativePose,
             initialRelativePose, jointPub, stack, trace>>

(***************************************************************************)
(* The state of Part 2: one Visual, its scene node, and what it reaches of *)
(* the rendering engine and of the managers.                               *)
(***************************************************************************)
VARIABLES
  renderEngineEnabled, \* Simulator::GetRenderEngineEnabled()
  ancestors,           \* the scene nodes above the visual's node, parent first
  nodePosition,        \* the scene node's position (an Ogre vector)
  nodeOrientation,     \* the scene node's orientation (an Ogre quaternion)
  attachedObjects,     \* the objects attached to the scene node, in order
  transparency,        \* this->transparency
  myMaterialName,      \* this->myMaterialName
  origMaterialName,    \* this->origMaterialName
  materials,           \* the materials of Ogre's MaterialManager
  ribbonTrail,         \* this->ribbonTrail: whether it is created, and its state
  entities,            \* the names of the entities of the scene manager
  ogreMeshes,          \* the meshes of Ogre's MeshManager, by name
  lastCall             \* the last operation called on the visual

visVars == <<renderEngineEnabled, ancestors, nodePosition, nodeOrientation,
             attachedObjects, transparency, myMaterialName, origMaterialName,
             materials, ribbonTrail, entities, ogreMeshes, lastCall>>

(***************************************************************************)
(* The state of Part 3: the visuals of a scene, the scene graph of their   *)
(* nodes and the selection object they share; and, for the visual of       *)
(* Part 2, the managers, the signal and the scene nodes it reaches.        *)
(***************************************************************************)
VARIABLES
  selectionObj,        \* Visual::selectionObj: the shared selection object, or NULL
  selectionObjs,       \* the SelectionObj instances created so far
  nodeParent,          \* the parent node of every scene node
  nodeChildren,        \* the child nodes of every scene node
  visParent,           \* Common::parent of every visual
  crashed,             \* the process has dereferenced a null pointer
  meshManager,         \* the names of the meshes Gazebo's MeshManager holds
  meshManagerCalls,    \* the calls the last Load made to create or load a mesh
  nodeScale,           \* the scale of the visual's scene node
  lines,               \* this->lines: the dynamic lines of the visual
  linesCreated,        \* the number of dynamic lines created so far
  preRenderSignal,     \* the slots connected to the pre-render signal, in order
  sceneNodes,          \* the scene nodes of the scene manager but the visual's own, by name
  boundingBoxNode      \* this->boundingBoxNode: the name of a scene node, or ""

selectionVars == <<selectionObj, selectionObjs>>

graphVars == <<nodeParent, nodeChildren, visParent, crashed>>

loadVars == <<meshManager, meshManagerCalls, nodeScale>>

lineVars == <<lines, linesCreated, preRenderSignal>>

boxVars == <<sceneNodes, boundingBoxNode>>

sceneVars == <<selectionVars, graphVars, loadVars, lineVars, boxVars>>

\* the visual of Part 2 but for the record of the last call
visualState == <<renderEngineEnabled, ancestors, nodePosition, nodeOrientation,
                 attachedObjects, transparency, myMaterialName, origMaterialName,
                 materials, ribbonTrail, entities, ogreMeshes>>

vars == <<simVars, visVars, sceneVars>>

ModelIds == 0..MaxChildren

ChildTypes == {"LINK", "MODEL", "OTHER"}

\* Base::HasType, for a child that carries exactly one of the types above
HasType(t, flag) == t = flag

\* Entity::GetWorldPose of model m: some pose, different for each model
WorldPoseOf(m) == m + 1

RECURSIVE SeqsUpTo(_, _)
\* all sequences over S of length at most n
SeqsUpTo(S, n) ==
  IF n = 0 THEN {<<>>}
  ELSE LET shorter == SeqsUpTo(S, n - 1)
       IN  shorter \cup {Append(s, x) : s \in {q \in shorter : Len(q) = n - 1}, x \in S}

\* the models that exist: 0 and the MODEL children of 0
Exists(m) == m = 0 \/ (m \in 1..Len(children[0]) /\ children[0][m] = "MODEL")

\* the shapes a nested model takes: its children and its number of joints
NestedChildren == {<<>>, <<"LINK">>, <<"OTHER">>}
NestedJoints == {0, 1}

\* every nested model of one run has the same shape
SimInit ==
  /\ \E top \in SeqsUpTo(ChildTypes, MaxChildren) :
     \E nested \in NestedChildren :
       children = [m \in ModelIds |->
                     IF m = 0 THEN top
                     ELSE IF m <= Len(top) /\ top[m] = "MODEL" THEN nested
                     ELSE <<>>]
  /\ \E g \in 0..MaxGrippers :
       grippers = [m \in ModelIds |-> IF m = 0 THEN g ELSE 0]
  /\ \E j0 \in 0..MaxJoints : \E jn \in NestedJoints :
       joints = [m \in ModelIds |->
                   IF m = 0 THEN j0
                   ELSE IF Exists(m) THEN jn ELSE 0]
  /\ isSimbody \in BOOLEAN
  /\ relativePose = [m \in ModelIds |-> "unset"]
  /\ initialRelativePose = [m \in ModelIds |-> "unset"]
  /\ jointPub = [m \in ModelIds |-> <<>>]
  /\ stack = <<>>
  /\ trace = <<>>

\* a call frame: the model, the loop the call is in, and the loop's iterator
Frame(m, pc, i) == [model |-> m, pc |-> pc, i |-> i]

Top == stack[Len(stack)]

SetTop(f) == [stack EXCEPT ![Len(stack)] = f]

Event(ev, m, k) == [ev |-> ev, model |-> m, k |-> k]

\* lines 49-52 of a call on model m: record the poses, then enter the first loop
EnterInit(m, callers) ==
  /\ relativePose' = [relativePose EXCEPT ![m] = WorldPoseOf(m)]
  /\ initialRelativePose' = [initialRelativePose EXCEPT ![m] = WorldPoseOf(m)]
  /\ stack' = Append(callers, Frame(m, "children", 1))

\* the outside world calls Init on model 0
CallInit ==
  /\ UNCHANGED <<visVars, sceneVars>>
  /\ stack = <<>>
  /\ trace = <<>>
  /\ EnterInit(0, stack)
  /\ trace' = Append(trace, Event("Call", 0, 0))
  /\ UNCHANGED <<children, grippers, joints, isSimbody, jointPub>>

\* InitChild with the MODEL branch forgotten: nested models are passed over
InitChild_linksOnly(m, i) ==
  IF HasType(children[m][i], "LINK")
  THEN /\ trace' = Append(trace, Event("LinkInit", m, i))
       /\ stack' = SetTop(Frame(m, "children", i + 1))
       /\ UNCHANGED <<relativePose, initialRelativePose>>
  ELSE /\ stack' = SetTop(Frame(m, "children", i + 1))
       /\ UNCHANGED <<trace, relativePose, initialRelativePose>>

\* the body of the loop over this->children, for the i-th child of m: a
\* LINK is initialised, a MODEL is initialised by a nested call, and any
\* other child is passed over
InitChild(m, i) ==
  IF HasType(children[m][i], "LINK")
  THEN /\ trace' = Append(trace, Event("LinkInit", m, i))
       /\ stack' = SetTop(Frame(m, "children", i + 1))
       /\ UNCHANGED <<relativePose, initialRelativePose>>
  ELSE IF HasType(children[m][i], "MODEL")
  THEN /\ trace' = Append(trace, Event("Call", i, 0))
       /\ EnterInit(i, SetTop(Frame(m, "children", i + 1)))
  ELSE /\ stack' = SetTop(Frame(m, "children", i + 1))
       /\ UNCHANGED <<trace, relativePose, initialRelativePose>>

\* one iteration (or the exit) of the loop over this->children
InitChildren ==
  /\ UNCHANGED <<visVars, sceneVars>>
  /\ stack # <<>>
  /\ Top.pc = "children"
  /\ LET m == Top.model
         i == Top.i
     IN  IF i > Len(children[m])
         THEN /\ stack' = SetTop(Frame(m, "grippers", 1))
              /\ UNCHANGED <<trace, relativePose, initialRelativePose>>
         ELSE InitChild(m, i)
  /\ UNCHANGED <<children, grippers, joints, isSimbody, jointPub>>

\* one iteration (or the exit) of the loop over this->grippers
InitGrippers ==
  /\ UNCHANGED <<visVars, sceneVars>>
  /\ stack # <<>>
  /\ Top.pc = "grippers"
  /\ LET m == Top.model
         i == Top.i
     IN  IF i > grippers[m]
         THEN /\ stack' = SetTop(Frame(m, "physics", 0))
              /\ UNCHANGED trace
         ELSE /\ trace' = Append(trace, Event("GripperInit", m, i))
              /\ stack' = SetTop(Frame(m, "grippers", i + 1))
  /\ UNCHANGED <<children, grippers, joints, isSimbody, jointPub,
                 relativePose, initialRelativePose>>

\* RebuildSimbodyState with the InitModel call left out
RebuildSimbodyState_noInitModel(m) ==
  trace' = trace

\* the dynamic cast of the physics engine, and InitModel(this) when it succeeds
RebuildSimbodyState(m) ==
  trace' = IF isSimbody THEN Append(trace, Event("InitModel", m, 0)) ELSE trace

\* the step between the grippers and the joints
InitPhysics ==
  /\ UNCHANGED <<visVars, sceneVars>>
  /\ stack # <<>>
  /\ Top.pc = "physics"
  /\ RebuildSimbodyState(Top.model)
  /\ stack' = SetTop(Frame(Top.model, "joints", 1))
  /\ UNCHANGED <<children, grippers, joints, isSimbody, jointPub,
                 relativePose, initialRelativePose>>

\* the call on the innermost frame returns to its caller
Return(tr) ==
  /\ trace' = Append(tr, Event("Return", Top.model, 0))
  /\ stack' = SubSeq(stack, 1, Len(stack) - 1)

\* InitJoint that also sends the joint's message right away, as the loader of
\* the joints used to
InitJoint_publishEarly(m, i) ==
  /\ trace' = Append(Append(trace, Event("JointInit", m, i)), Event("Publish", m, i))
  /\ stack' = SetTop(Frame(m, "joints", i + 1))
  /\ jointPub' = [jointPub EXCEPT ![m] = Append(@, i)]

\* Joint::Init of the i-th joint of m completes
InitJoint(m, i) ==
  /\ trace' = Append(trace, Event("JointInit", m, i))
  /\ stack' = SetTop(Frame(m, "joints", i + 1))
  /\ UNCHANGED jointPub

\* CatchJointInit that reports the failure and goes on with the next joint
CatchJointInit_continue(m, i) ==
  /\ trace' = Append(trace, Event("JointInitFailed", m, i))
  /\ stack' = SetTop(Frame(m, "joints", i + 1))
  /\ UNCHANGED jointPub

\* Joint::Init of the i-th joint of m throws: the handler reports and returns
CatchJointInit(m, i) ==
  /\ Return(Append(trace, Event("JointInitFailed", m, i)))
  /\ UNCHANGED jointPub

\* one iteration (or the exit) of the loop that initialises the joints
InitJoints ==
  /\ UNCHANGED <<visVars, sceneVars>>
  /\ stack # <<>>
  /\ Top.pc = "joints"
  /\ LET m == Top.model
         i == Top.i
     IN  IF i > joints[m]
         THEN /\ stack' = SetTop(Frame(m, "publish", 1))
              /\ UNCHANGED <<trace, jointPub>>
         ELSE \/ InitJoint(m, i)
              \/ CatchJointInit(m, i)
  /\ UNCHANGED <<children, grippers, joints, isSimbody,
                 relativePose, initialRelativePose>>

\* the body of the loop over the joints that fills and publishes a message
PublishJoint(m, i) ==
  /\ jointPub' = [jointPub EXCEPT ![m] = Append(@, i)]
  /\ trace' = Append(trace, Event("Publish", m, i))
  /\ stack' = SetTop(Frame(m, "publish", i + 1))

\* one iteration of the loop that publishes the joint messages, or the end of
\* the function
PublishJoints ==
  /\ UNCHANGED <<visVars, sceneVars>>
  /\ stack # <<>>
  /\ Top.pc = "publish"
  /\ LET m == Top.model
         i == Top.i
     IN  IF i > joints[m]
         THEN /\ Return(trace)
              /\ UNCHANGED jointPub
         ELSE PublishJoint(m, i)
  /\ UNCHANGED <<children, grippers, joints, isSimbody,
                 relativePose, initialRelativePose>>

SimNext ==
  \/ CallInit
  \/ InitChildren
  \/ InitGrippers
  \/ InitPhysics
  \/ InitJoints
  \/ PublishJoints

(***************************************************************************)
(* Part 2.  Visual                                                         *)
(*                                                                         *)
(* Numbers are integers.  A pose of Gazebo is [pos, rot] with pos a        *)
(* Vector3 [x, y, z] and rot a Quatern [u, x, y, z]; the rendering engine  *)
(* keeps a vector [x, y, z] and a quaternion [w, x, y, z].                 *)
(***************************************************************************)
\* the longest chain of scene nodes above the visual's node
MaxDepth == 2

\* this->sceneNode->getName()
NodeName == "node"

Vector3(x, y, z) == [x |-> x, y |-> y, z |-> z]
Quatern(u, x, y, z) == [u |-> u, x |-> x, y |-> y, z |-> z]
Pose3d(pos, rot) == [pos |-> pos, rot |-> rot]
OgreVector3(x, y, z) == [x |-> x, y |-> y, z |-> z]
OgreQuaternion(w, x, y, z) == [w |-> w, x |-> x, y |-> y, z |-> z]

\* the values of the default constructors Vector3(), Quatern() and Pose3d()
DefaultPose3d == Pose3d(Vector3(0, 0, 0), Quatern(1, 0, 0, 0))

\* the positions and rotations the callers pass
Positions == {Vector3(0, 0, 0), Vector3(1, 2, 3)}
Rotations == {Quatern(1, 0, 0, 0), Quatern(0, 1, 0, 0),
              Quatern(0, 0, 1, 0), Quatern(0, 0, 0, 1)}
Poses == {Pose3d(p, r) : p \in Positions, r \in Rotations}

\* the poses of the scene nodes above the visual's node
AncestorNodes ==
  {[position |-> OgreVector3(p.x, p.y, p.z), orientation |-> q] :
     p \in Positions,
     q \in {OgreQuaternion(1, 0, 0, 0), OgreQuaternion(0, 0, 0, 1)}}

\* Ogre: the product of two quaternions
QMul(a, b) ==
  OgreQuaternion(a.w * b.w - a.x * b.x - a.y * b.y - a.z * b.z,
                 a.w * b.x + a.x * b.w + a.y * b.z - a.z * b.y,
                 a.w * b.y + a.y * b.w + a.z * b.x - a.x * b.z,
                 a.w * b.z + a.z * b.w + a.x * b.y - a.y * b.x)

Cross(a, b) ==
  OgreVector3(a.y * b.z - a.z * b.y, a.z * b.x - a.x * b.z, a.x * b.y - a.y * b.x)

\* Ogre: the vector v rotated by the unit quaternion q
QRotate(q, v) ==
  LET qv  == OgreVector3(q.x, q.y, q.z)
      uv  == Cross(qv, v)
      uuv == Cross(qv, uv)
  IN  OgreVector3(v.x + 2 * q.w * uv.x + 2 * uuv.x,
                  v.y + 2 * q.w * uv.y + 2 * uuv.y,
                  v.z + 2 * q.w * uv.z + 2 * uuv.z)

RECURSIVE Derived(_)
\* Ogre: the world-frame pose of the first node of a chain of nodes, each the
\* child of the next, the last a child of the root node
Derived(chain) ==
  IF Len(chain) = 1
  THEN chain[1]
  ELSE LET parent == Derived(Tail(chain))
           rotated == QRotate(parent.orientation, chain[1].position)
       IN  [position |-> OgreVector3(rotated.x + parent.position.x,
                                     rotated.y + parent.position.y,
                                     rotated.z + parent.position.z),
            orientation |-> QMul(parent.orientation, chain[1].orientation)]

\* the visual's scene node followed by the nodes above it
NodeChain ==
  <<[position |-> nodePosition, orientation |-> nodeOrientation]>> \o ancestors

\* sceneNode->_getDerivedPosition()
DerivedPosition == Derived(NodeChain).position

\* Visual::SetPosition: not guarded by the render engine flag
SetPosition(pos) ==
  nodePosition' = OgreVector3(pos.x, pos.y, pos.z)

\* SetRotation without the render engine check
SetRotation_noGuard(rot) ==
  nodeOrientation' = OgreQuaternion(rot.u, rot.x, rot.y, rot.z)

\* SetRotation passing the components in the order the Quatern declares them
\* to a function that takes w last
SetRotation_wLast(rot) ==
  IF ~renderEngineEnabled
  THEN UNCHANGED nodeOrientation
  ELSE nodeOrientation' = OgreQuaternion(rot.z, rot.u, rot.x, rot.y)

\* Visual::SetRotation
SetRotation(rot) ==
  IF ~renderEngineEnabled
  THEN UNCHANGED nodeOrientation
  ELSE nodeOrientation' = OgreQuaternion(rot.u, rot.x, rot.y, rot.z)

\* Visual::SetPose
SetPose(pose) ==
  IF ~renderEngineEnabled
  THEN UNCHANGED <<nodePosition, nodeOrientation>>
  ELSE SetPosition(pose.pos) /\ SetRotation(pose.rot)

\* Visual::GetPosition
GetPosition ==
  IF ~renderEngineEnabled
  THEN DefaultPose3d.pos
  ELSE LET vpos == nodePosition
       IN  Vector3(vpos.x, vpos.y, vpos.z)

\* Visual::GetRotation
GetRotation ==
  IF ~renderEngineEnabled
  THEN DefaultPose3d.rot
  ELSE LET vquatern == nodeOrientation
       IN  Quatern(vquatern.w, vquatern.x, vquatern.y, vquatern.z)

\* Visual::GetPose
GetPose ==
  IF ~renderEngineEnabled
  THEN DefaultPose3d
  ELSE Pose3d(GetPosition, GetRotation)

\* Visual::GetWorldPose
GetWorldPose ==
  IF ~renderEngineEnabled
  THEN DefaultPose3d
  ELSE LET vpos == DerivedPosition
           vquatern == nodeOrientation
       IN  Pose3d(Vector3(vpos.x, vpos.y, vpos.z),
                  Quatern(vquatern.w, vquatern.x, vquatern.y, vquatern.z))

\* the record of a call
Call(op, arg) == [op |-> op, arg |-> arg]

(***************************************************************************)
(* Floats: a float is a number of 1/Unit-ths, or NaN.  Comparisons with    *)
(* NaN are false.                                                          *)
(***************************************************************************)
\* the float 1.0 is Unit parts
Unit == 2

F(v) == [nan |-> FALSE, v |-> v]
NaN == [nan |-> TRUE, v |-> 0]

\* a < b on floats
FLess(a, b) == ~a.nan /\ ~b.nan /\ a.v < b.v

\* std::max(a, b): (a < b) ? b : a
StdMax(a, b) == IF FLess(a, b) THEN b ELSE a

\* std::min(a, b): (b < a) ? b : a
StdMin(a, b) == IF FLess(b, a) THEN b ELSE a

\* a - b on floats
FSub(a, b) == IF a.nan \/ b.nan THEN NaN ELSE F(a.v - b.v)

\* the transparencies the callers pass
Transparencies == {F(v) : v \in (0 - Unit)..(2 * Unit)} \cup {NaN}

(***************************************************************************)
(* Attached objects, materials and meshes.                                 *)
(***************************************************************************)
\* the most objects attached to the scene node through AttachObject
MaxObjects == 2

\* a movable object: its class, its material and its shadow flag
Object(kind, material) == [kind |-> kind, material |-> material, castShadows |-> TRUE]

\* the classes of the objects the visual attaches through AttachObject:
\* entities, and the dynamic lines (which are simple renderables)
AttachableKinds == {"Entity", "SimpleRenderable"}

\* a material of the material manager: what SetTransparency writes in its passes
Material(alpha, depthWrite) == [diffuseAlpha |-> alpha, depthWrite |-> depthWrite]

\* the materials the material manager holds at the start
StockMaterials == {"BaseWhite", "Gazebo/Red", "Gazebo/Blue"}

\* the material names the callers pass
MaterialNames == {"", "Gazebo/Red", "Gazebo/Blue", "Gazebo/Missing"}

\* the number of values of an entry of a 16-bit index buffer
IndexValues == 65536

\* boost::lexical_cast<std::string> of the tile counts the callers pass
LexicalCast(n) == <<"1", "2", "3">>[n]

\* the tilings of the unit box the callers pass
Tiles == {[x |-> 1, y |-> 1], [x |-> 2, y |-> 1], [x |-> 1, y |-> 2]}

\* the name of the unit box of a tiling
BoxMeshName(tile) ==
  "unit_box" \o "_U" \o LexicalCast(tile.x) \o "V" \o LexicalCast(tile.y)

\* a submesh of Gazebo: its indices (unsigned int)
SubMesh(indices) == [indices |-> indices]

\* a mesh of Gazebo: its submeshes, and whether the corners of its bounding
\* box are finite
Mesh(subMeshes, maxIsFinite, minIsFinite) ==
  [subMeshes |-> subMeshes, maxIsFinite |-> maxIsFinite, minIsFinite |-> minIsFinite]

\* the meshes the MeshManager holds at the start
StockMeshes == {"unit_box_U1V1", "empty", "unbounded"}

\* the mesh the MeshManager holds, creates or loads under a name
Meshes ==
  [name \in StockMeshes \cup {BoxMeshName(t) : t \in Tiles}
              \cup {"unbounded_min", "large", "model.mesh"} |->
     CASE name = "empty" -> Mesh(<<>>, TRUE, TRUE)
       [] name = "unbounded" -> Mesh(<<SubMesh(<<0, 1, 2>>)>>, FALSE, TRUE)
       [] name = "unbounded_min" -> Mesh(<<SubMesh(<<0, 1, 2>>)>>, TRUE, FALSE)
       [] name = "large" ->
            Mesh(<<SubMesh(<<0, 1, 2>>),
                   SubMesh(<<IndexValues - 1, IndexValues, IndexValues + 2>>)>>,
                 TRUE, TRUE)
       [] OTHER -> Mesh(<<SubMesh(<<0, 1, 2>>), SubMesh(<<2, 1, 3>>)>>, TRUE, TRUE)]

\* Mesh::GetSubMeshCount
GetSubMeshCount(mesh) == Len(mesh.subMeshes)

\* the mesh names the callers pass
MeshNames == StockMeshes \cup {"missing"}

\* the function f extended or overwritten at key k
Put(f, k, v) == [x \in DOMAIN f \cup {k} |-> IF x = k THEN v ELSE f[x]]

\* Visual::AttachObject
AttachObject(obj) ==
  IF ~renderEngineEnabled
  THEN UNCHANGED attachedObjects
  ELSE attachedObjects' = Append(attachedObjects, obj)

\* Visual::DetachObjects
DetachObjects ==
  IF ~renderEngineEnabled
  THEN UNCHANGED attachedObjects
  ELSE attachedObjects' = <<>>

\* Visual::SetCastShadows (the visual is never static: isStatic stays false)
SetCastShadows(shadows) ==
  IF ~renderEngineEnabled
  THEN UNCHANGED attachedObjects
  ELSE attachedObjects' =
         [i \in DOMAIN attachedObjects |->
            [attachedObjects[i] EXCEPT !.castShadows = shadows]]

\* the clamp of Visual::SetTransparency
ClampTransparency(trans) == StdMin(StdMax(trans, F(0)), F(Unit))

\* the materials of the sub-entities of the attached entities
EntityMaterials ==
  {attachedObjects[i].material :
     i \in {k \in DOMAIN attachedObjects : attachedObjects[k].kind = "Entity"}}

\* Visual::SetTransparency: clamp, then write the depth flag and the diffuse
\* alpha of every pass of every attached entity's materials
SetTransparency(trans) ==
  IF ~renderEngineEnabled
  THEN UNCHANGED <<transparency, materials>>
  ELSE LET t == ClampTransparency(trans)
       IN  /\ transparency' = t
           /\ materials' =
                [n \in DOMAIN materials |->
                   IF n \in EntityMaterials
                   THEN Material(FSub(F(Unit), t), ~FLess(F(0), t))
                   ELSE materials[n]]

\* Visual::GetTransparency
GetTransparency == transparency

\* the custom material name of SetMaterial
CustomMaterialName(materialName) == NodeName \o "_MATERIAL_" \o materialName

\* the loop of SetMaterial over the attached objects.  An object that is not
\* an entity is cast to SimpleRenderable; for an object of another class the
\* cast is undefined, and the object's material is set or is not.
SetMaterialOfObjects(name) ==
  \E hit \in SUBSET {i \in DOMAIN attachedObjects :
                       attachedObjects[i].kind \notin {"Entity", "SimpleRenderable"}} :
    attachedObjects' =
      [i \in DOMAIN attachedObjects |->
         IF attachedObjects[i].kind \in {"Entity", "SimpleRenderable"} \/ i \in hit
         THEN [attachedObjects[i] EXCEPT !.material = name]
         ELSE attachedObjects[i]]

\* Visual::SetMaterial
SetMaterial(materialName) ==
  IF ~renderEngineEnabled \/ materialName = ""
  THEN UNCHANGED <<origMaterialName, myMaterialName, materials, attachedObjects>>
  ELSE /\ origMaterialName' = materialName
       /\ IF materialName \notin DOMAIN materials
          THEN UNCHANGED <<myMaterialName, materials, attachedObjects>>
          ELSE LET name == CustomMaterialName(materialName)
               IN  /\ myMaterialName' = name
                   /\ materials' = IF name \in DOMAIN materials
                                   THEN materials
                                   ELSE Put(materials, name, materials[materialName])
                   /\ SetMaterialOfObjects(name)

\* Visual::GetMaterialName
GetMaterialName == myMaterialName

\* Visual::SetRibbonTrail: the trail is created and attached on the first
\* call, whatever the render engine flag says
SetRibbonTrail(value) ==
  /\ attachedObjects' = IF ~ribbonTrail.created
                        THEN Append(attachedObjects, Object("RibbonTrail", "Gazebo/Red"))
                        ELSE attachedObjects
  /\ ribbonTrail' = [created |-> TRUE, visible |-> value, tracks |-> value]

\* the submesh InsertMesh creates in Ogre for a submesh of Gazebo: the loop
\* writes each index through an unsigned short pointer
OgreSubMesh(subMesh) ==
  [indexBuffer |-> [j \in 1..Len(subMesh.indices) |-> subMesh.indices[j] % IndexValues]]

\* Visual::InsertMesh of the mesh called name: the meshes of Ogre after the
\* call, and whether the call throws.  createManual throws an Ogre exception
\* for a name Ogre has already, which InsertMesh catches.
InsertMesh(name) ==
  LET mesh == Meshes[name]
      manual == [subMeshes |-> [i \in 1..GetSubMeshCount(mesh) |->
                                  OgreSubMesh(mesh.subMeshes[i])],
                 boundsSet |-> FALSE,
                 loaded |-> FALSE]
  IN  IF GetSubMeshCount(mesh) = 0
      THEN [ogre |-> ogreMeshes, threw |-> FALSE]
      ELSE IF name \in DOMAIN ogreMeshes
      THEN [ogre |-> ogreMeshes, threw |-> FALSE]
      ELSE IF ~mesh.maxIsFinite \/ ~mesh.minIsFinite
      THEN [ogre |-> Put(ogreMeshes, name, manual), threw |-> TRUE]
      ELSE [ogre |-> Put(ogreMeshes, name,
                         [manual EXCEPT !.boundsSet = TRUE, !.loaded = TRUE]),
            threw |-> FALSE]

\* Visual::AttachMesh
AttachMesh(meshName) ==
  IF ~renderEngineEnabled
  THEN UNCHANGED <<ogreMeshes, entities, attachedObjects>>
  ELSE LET inserted == IF meshName \notin entities /\ meshName \in meshManager
                       THEN InsertMesh(meshName)
                       ELSE [ogre |-> ogreMeshes, threw |-> FALSE]
           entityName == NodeName \o "_ENTITY_" \o meshName
       IN  /\ ogreMeshes' = inserted.ogre
           /\ IF inserted.threw \/ entityName \in entities
                 \/ meshName \notin DOMAIN inserted.ogre
              THEN UNCHANGED <<entities, attachedObjects>>
              ELSE /\ entities' = entities \cup {entityName}
                   /\ AttachObject(Object("Entity", "BaseWhite"))

(***************************************************************************)
(* The calls on the visual.  Each records itself in lastCall.              *)
(***************************************************************************)
Call_SetPosition ==
  /\ \E pos \in Positions :
       /\ SetPosition(pos)
       /\ lastCall' = Call("SetPosition", pos)
  /\ UNCHANGED <<renderEngineEnabled, ancestors, nodeOrientation, attachedObjects,
                 transparency, myMaterialName, origMaterialName, materials,
                 ribbonTrail, entities, ogreMeshes>>
  /\ UNCHANGED <<simVars, sceneVars>>

Call_SetRotation ==
  /\ \E rot \in Rotations :
       /\ SetRotation(rot)
       /\ lastCall' = Call("SetRotation", rot)
  /\ UNCHANGED <<renderEngineEnabled, ancestors, nodePosition, attachedObjects,
                 transparency, myMaterialName, origMaterialName, materials,
                 ribbonTrail, entities, ogreMeshes>>
  /\ UNCHANGED <<simVars, sceneVars>>

Call_SetPose ==
  /\ \E pose \in Poses :
       /\ SetPose(pose)
       /\ lastCall' = Call("SetPose", pose)
  /\ UNCHANGED <<renderEngineEnabled, ancestors, attachedObjects,
                 transparency, myMaterialName, origMaterialName, materials,
                 ribbonTrail, entities, ogreMeshes>>
  /\ UNCHANGED <<simVars, sceneVars>>

Call_AttachObject ==
  /\ Len(attachedObjects) < MaxObjects
  /\ \E kind \in AttachableKinds :
       /\ AttachObject(Object(kind, "BaseWhite"))
       /\ lastCall' = Call("AttachObject", kind)
  /\ UNCHANGED <<renderEngineEnabled, ancestors, nodePosition, nodeOrientation,
                 transparency, myMaterialName, origMaterialName, materials,
                 ribbonTrail, entities, ogreMeshes>>
  /\ UNCHANGED <<simVars, sceneVars>>

Call_DetachObjects ==
  /\ DetachObjects
  /\ lastCall' = Call("DetachObjects", "")
  /\ UNCHANGED <<renderEngineEnabled, ancestors, nodePosition, nodeOrientation,
                 transparency, myMaterialName, origMaterialName, materials,
                 ribbonTrail, entities, ogreMeshes>>
  /\ UNCHANGED <<simVars, sceneVars>>

Call_SetCastShadows ==
  /\ \E shadows \in BOOLEAN :
       /\ SetCastShadows(shadows)
       /\ lastCall' = Call("SetCastShadows", shadows)
  /\ UNCHANGED <<renderEngineEnabled, ancestors, nodePosition, nodeOrientation,
                 transparency, myMaterialName, origMaterialName, materials,
                 ribbonTrail, entities, ogreMeshes>>
  /\ UNCHANGED <<simVars, sceneVars>>

Call_SetTransparency ==
  /\ \E trans \in Transparencies :
       /\ SetTransparency(trans)
       /\ lastCall' = Call("SetTransparency", trans)
  /\ UNCHANGED <<renderEngineEnabled, ancestors, nodePosition, nodeOrientation,
                 attachedObjects, myMaterialName, origMaterialName,
                 ribbonTrail, entities, ogreMeshes>>
  /\ UNCHANGED <<simVars, sceneVars>>

Call_SetMaterial ==
  /\ \E materialName \in MaterialNames :
       /\ SetMaterial(materialName)
       /\ lastCall' = Call("SetMaterial", materialName)
  /\ UNCHANGED <<renderEngineEnabled, ancestors, nodePosition, nodeOrientation,
                 transparency, ribbonTrail, entities, ogreMeshes>>
  /\ UNCHANGED <<simVars, sceneVars>>

Call_SetRibbonTrail ==
  /\ \E value \in BOOLEAN :
       /\ SetRibbonTrail(value)
       /\ lastCall' = Call("SetRibbonTrail", value)
  /\ UNCHANGED <<renderEngineEnabled, ancestors, nodePosition, nodeOrientation,
                 transparency, myMaterialName, origMaterialName, materials,
                 entities, ogreMeshes>>
  /\ UNCHANGED <<simVars, sceneVars>>

Call_AttachMesh ==
  /\ Len(attachedObjects) < MaxObjects
  /\ \E meshName \in MeshNames :
       /\ AttachMesh(meshName)
       /\ lastCall' = Call("AttachMesh", meshName)
  /\ UNCHANGED <<renderEngineEnabled, ancestors, nodePosition, nodeOrientation,
                 transparency, myMaterialName, origMaterialName, materials,
                 ribbonTrail>>
  /\ UNCHANGED <<simVars, sceneVars>>

(***************************************************************************)
(* Part 3: the visuals of a scene.  A visual and its scene node carry the  *)
(* same number; the root scene node of the scene manager is RootNode.      *)
(***************************************************************************)
\* the number of visuals of the scene
MaxVisuals == 2

\* the null pointer to a visual or to a selection object
NULL == 0

\* the root scene node of the scene manager
RootNode == 0

\* the null pointer to a scene node
NoNode == 0 - 1

Visuals == 1..MaxVisuals

\* the scene nodes: the root and the nodes of the visuals
Nodes == {RootNode} \cup Visuals

\* new SelectionObj(): loaded no time, attached to no visual
NewSelectionObj == [loads |-> 0, visual |-> NULL]

\* SelectionObj::Load
SelectionObj_Load(obj) == [obj EXCEPT !.loads = @ + 1]

\* SelectionObj::Attach: the object leaves the visual it is attached to and
\* is attached to vis (to no visual when vis is NULL)
SelectionObj_Attach(obj, vis) == [obj EXCEPT !.visual = vis]

\* ShowSelectionBox without the test of the shared pointer
ShowSelectionBox_newEachCall(this, value) ==
  LET objs == Append(selectionObjs, SelectionObj_Load(NewSelectionObj))
      ptr == Len(objs)
  IN  /\ selectionObj' = ptr
      /\ selectionObjs' =
           [objs EXCEPT ![ptr] = SelectionObj_Attach(@, IF value THEN this ELSE NULL)]

\* Visual::ShowSelectionBox
ShowSelectionBox(this, value) ==
  LET objs == IF selectionObj = NULL
              THEN Append(selectionObjs, SelectionObj_Load(NewSelectionObj))
              ELSE selectionObjs
      ptr == IF selectionObj = NULL THEN Len(objs) ELSE selectionObj
  IN  /\ selectionObj' = ptr
      /\ selectionObjs' =
           [objs EXCEPT ![ptr] = SelectionObj_Attach(@, IF value THEN this ELSE NULL)]

\* Ogre::Node::removeChild: the child leaves the node, if it is its child
RemoveChild(graph, node, child) ==
  IF child \in graph.children[node]
  THEN [parent |-> [graph.parent EXCEPT ![child] = NoNode],
        children |-> [graph.children EXCEPT ![node] = @ \ {child}]]
  ELSE graph

\* Ogre::Node::addChild of a node that has no parent
AddChild(graph, node, child) ==
  [parent |-> [graph.parent EXCEPT ![child] = node],
   children |-> [graph.children EXCEPT ![node] = @ \cup {child}]]

\* the scene graph
SceneGraph == [parent |-> nodeParent, children |-> nodeChildren]

\* Common::SetParent
SetParent(vis, parent) == visParent' = [visParent EXCEPT ![vis] = parent]

\* AttachVisual that leaves the visual's node with its former parent as well
AttachVisual_noRemove(this, vis) ==
  IF nodeParent[vis] = NoNode
  THEN /\ crashed' = TRUE
       /\ UNCHANGED <<nodeParent, nodeChildren, visParent>>
  ELSE LET added == AddChild(SceneGraph, this, vis)
       IN  /\ nodeParent' = added.parent
           /\ nodeChildren' = added.children
           /\ SetParent(vis, this)
           /\ UNCHANGED crashed

\* Visual::AttachVisual.  The node of vis is removed from its parent node;
\* when it has none, the call dereferences a null pointer.
AttachVisual(this, vis) ==
  IF nodeParent[vis] = NoNode
  THEN /\ crashed' = TRUE
       /\ UNCHANGED <<nodeParent, nodeChildren, visParent>>
  ELSE LET removed == RemoveChild(SceneGraph, nodeParent[vis], vis)
           added == AddChild(removed, this, vis)
       IN  /\ nodeParent' = added.parent
           /\ nodeChildren' = added.children
           /\ SetParent(vis, this)
           /\ UNCHANGED crashed

\* Visual::DetachVisual
DetachVisual(this, vis) ==
  LET removed == RemoveChild(SceneGraph, this, vis)
  IN  /\ nodeParent' = removed.parent
      /\ nodeChildren' = removed.children
      /\ SetParent(vis, NULL)

(***************************************************************************)
(* Visual::Load.                                                           *)
(***************************************************************************)
\* the values the pose, material, shadow and scale parameters hold: the
\* defaults of Visual::Init, and the values of a description
Appearances ==
  {[pose |-> DefaultPose3d, material |-> "none", castShadows |-> TRUE,
    scale |-> Vector3(1, 1, 1)],
   [pose |-> Pose3d(Vector3(1, 2, 3), Quatern(0, 1, 0, 0)), material |-> "Gazebo/Red",
    castShadows |-> FALSE, scale |-> Vector3(2, 2, 2)]}

\* the values the parameters of the visual hold when Load(NULL) reads them
LoadParams ==
  {[pose |-> a.pose, mesh |-> m, uvTile |-> t, material |-> a.material,
    castShadows |-> a.castShadows, scale |-> a.scale] :
     a \in Appearances,
     m \in {"", "unit_box", "empty", "unbounded", "model.mesh"},
     t \in Tiles}

\* a call that creates or loads a mesh in the MeshManager, and whether the
\* manager had a mesh of that name when it was made
ManagerCall(op, name) == [op |-> op, name |-> name, hasMesh |-> name \in meshManager]

\* MeshManager::CreateBox: the manager holds a box mesh of that name
MeshManager_CreateBox(manager, name) == manager \cup {name}

\* MeshManager::Load: the manager holds the mesh of that file
MeshManager_Load(manager, name) == manager \cup {name}

\* the name of the entity Load creates
VisualEntityName == "VISUAL_" \o NodeName

\* the entity called name, with the given material
NamedEntity(name, material) ==
  [kind |-> "Entity", material |-> material, castShadows |-> TRUE, name |-> name]

\* whether the entity called name is attached to the scene node
IsAttached(name) ==
  \E i \in DOMAIN attachedObjects :
    /\ "name" \in DOMAIN attachedObjects[i]
    /\ attachedObjects[i].name = name

\* Visual::SetMaterial with the render engine enabled, as a function of the
\* state st it reads and writes; hit are the objects of another class than
\* Entity or SimpleRenderable that the undefined cast happens to reach
SetMaterialIn(st, materialName, hit) ==
  IF materialName = ""
  THEN st
  ELSE IF materialName \notin DOMAIN st.materials
  THEN [st EXCEPT !.origMaterialName = materialName]
  ELSE LET name == CustomMaterialName(materialName)
       IN  [origMaterialName |-> materialName,
            myMaterialName |-> name,
            materials |-> IF name \in DOMAIN st.materials
                          THEN st.materials
                          ELSE Put(st.materials, name, st.materials[materialName]),
            attachedObjects |->
              [i \in DOMAIN st.attachedObjects |->
                 IF st.attachedObjects[i].kind \in {"Entity", "SimpleRenderable"}
                    \/ i \in hit
                 THEN [st.attachedObjects[i] EXCEPT !.material = name]
                 ELSE st.attachedObjects[i]]]

\* Visual::SetCastShadows with the render engine enabled, on the objects objs
SetCastShadowsIn(objs, shadows) ==
  [i \in DOMAIN objs |-> [objs[i] EXCEPT !.castShadows = shadows]]

\* the calls of MeshManager::CreateBox of a Load of the unit box: the test
\* of line 237 ends in a semicolon and guards nothing
CreateBoxCalls(p) ==
  <<ManagerCall("CreateBox", BoxMeshName(p.uvTile))>>

\* Visual::Load(NULL) with the parameters holding p.  An exception leaves
\* what the call has done so far.
Load(p) ==
  IF ~renderEngineEnabled
  THEN /\ meshManagerCalls' = <<>>
       /\ UNCHANGED <<meshManager, nodeScale, ogreMeshes, entities, attachedObjects,
                      nodePosition, nodeOrientation, origMaterialName,
                      myMaterialName, materials>>
  ELSE
    LET boxed == p.mesh = "unit_box"
        meshName == IF boxed THEN BoxMeshName(p.uvTile) ELSE p.mesh
        boxCalls == IF boxed THEN CreateBoxCalls(p) ELSE <<>>
        boxes == {c.name : c \in {boxCalls[i] : i \in DOMAIN boxCalls}}
        withBox == IF boxes = {}
                   THEN meshManager
                   ELSE MeshManager_CreateBox(meshManager, meshName)
        loads == meshName # "" /\ meshName \notin withBox
        loadCalls == IF loads THEN <<ManagerCall("Load", meshName)>> ELSE <<>>
        manager == IF loads THEN MeshManager_Load(withBox, meshName) ELSE withBox
        inserted == IF meshName = ""
                    THEN [ogre |-> ogreMeshes, threw |-> FALSE]
                    ELSE InsertMesh(meshName)
        exists == VisualEntityName \in entities
        \* createEntity throws for a mesh Ogre has not; attachObject throws
        \* for an object that is attached
        threw == \/ inserted.threw
                 \/ meshName # "" /\ ~exists /\ meshName \notin DOMAIN inserted.ogre
                 \/ meshName # "" /\ exists /\ IsAttached(VisualEntityName)
        created == meshName # "" /\ ~inserted.threw /\ ~exists
                   /\ meshName \in DOMAIN inserted.ogre
    IN  /\ meshManagerCalls' = boxCalls \o loadCalls
        /\ meshManager' = manager
        /\ ogreMeshes' = inserted.ogre
        /\ entities' = IF created THEN entities \cup {VisualEntityName} ELSE entities
        /\ IF threw
           THEN UNCHANGED <<nodeScale, attachedObjects, nodePosition, nodeOrientation,
                            origMaterialName, myMaterialName, materials>>
           ELSE \E material \in IF created \/ meshName = ""
                                THEN {"BaseWhite"}
                                ELSE DOMAIN materials :
                  LET objs == IF meshName = ""
                              THEN attachedObjects
                              ELSE Append(attachedObjects,
                                          NamedEntity(VisualEntityName, material))
                      st == [origMaterialName |-> origMaterialName,
                             myMaterialName |-> myMaterialName,
                             materials |-> materials,
                             attachedObjects |-> objs]
                  IN  \E hit \in SUBSET {i \in DOMAIN objs :
                                           objs[i].kind \notin {"Entity", "SimpleRenderable"}} :
                        LET set == IF p.material # "none"
                                   THEN SetMaterialIn(st, p.material, hit)
                                   ELSE st
                        IN  /\ SetPose(p.pose)
                            /\ nodeScale' = OgreVector3(p.scale.x, p.scale.y, p.scale.z)
                            /\ origMaterialName' = set.origMaterialName
                            /\ myMaterialName' = set.myMaterialName
                            /\ materials' = set.materials
                            /\ attachedObjects' =
                                 SetCastShadowsIn(set.attachedObjects, p.castShadows)

(***************************************************************************)
(* The dynamic lines of the visual.                                        *)
(***************************************************************************)
\* the most dynamic lines created for the visual
MaxLines == 3

\* boost::bind(&Visual::Update, this): the slot of this visual
UpdateSlot == "Visual::Update"

\* the kinds of line the callers pass
RenderOpTypes == {"RENDERING_LINE_LIST", "RENDERING_LINE_STRIP"}

\* Events::ConnectPreRenderSignal: one more connection of the slot
ConnectPreRenderSignal(signal, slot) == Append(signal, slot)

\* Events::DisconnectPreRenderSignal: the signal disconnects every connection
\* whose slot equals the given one
DisconnectPreRenderSignal(signal, slot) == SelectSeq(signal, LAMBDA s : s # slot)

\* std::list::erase of the first entry equal to x, if there is one
EraseFirst(seq, x) ==
  IF \E i \in DOMAIN seq : seq[i] = x
  THEN LET k == CHOOSE i \in DOMAIN seq :
                  seq[i] = x /\ \A j \in 1..(i - 1) : seq[j] # x
       IN  SubSeq(seq, 1, k - 1) \o SubSeq(seq, k + 1, Len(seq))
  ELSE seq

\* Visual::AddDynamicLine: the new line is the return value
AddDynamicLine(type) ==
  LET line == linesCreated + 1
  IN  /\ preRenderSignal' = ConnectPreRenderSignal(preRenderSignal, UpdateSlot)
      /\ linesCreated' = line
      /\ lines' = Append(lines, line)
      /\ AttachObject(Object("SimpleRenderable", "BaseWhite"))

\* DeleteDynamicLine that disconnects whenever it is called
DeleteDynamicLine_alwaysDisconnect(line) ==
  /\ lines' = EraseFirst(lines, line)
  /\ preRenderSignal' = DisconnectPreRenderSignal(preRenderSignal, UpdateSlot)
  /\ UNCHANGED linesCreated

\* Visual::DeleteDynamicLine
DeleteDynamicLine(line) ==
  LET erased == EraseFirst(lines, line)
  IN  /\ lines' = erased
      /\ preRenderSignal' = IF Len(erased) = 0
                            THEN DisconnectPreRenderSignal(preRenderSignal, UpdateSlot)
                            ELSE preRenderSignal
      /\ UNCHANGED linesCreated

(***************************************************************************)
(* The bounding box of the visual.  sceneNodes holds the scene nodes of    *)
(* the scene manager other than the visual's own, by name.                 *)
(***************************************************************************)
\* the most bounding boxes attached to the visual
MaxBoxes == 2

\* operator<< of the int i of the name search
IntText(i) == <<"0", "1", "2", "3", "4", "5", "6", "7", "8", "9">>[i + 1]

\* the first name AttachBoundingBox tries
BoxNodeBase == NodeName \o "_AABB_NODE"

\* scene nodes of other owners whose names the search may meet
ForeignNodeNames == {BoxNodeBase, BoxNodeBase \o "_0", BoxNodeBase \o "_1"}

\* the corners the callers pass
Corners == {Vector3(0, 0, 0), Vector3(1, 2, 3), Vector3(0 - 1, 0 - 1, 0 - 1)}

\* Ogre::SceneManager::hasSceneNode
HasSceneNode(name) == name = NodeName \/ name \in DOMAIN sceneNodes

\* a scene node as createChildSceneNode returns it
SceneNode(parent) ==
  [parent |-> parent, inheritScale |-> TRUE, scale |-> OgreVector3(1, 1, 1),
   visible |-> TRUE, objects |-> <<>>]

\* the name search that tries the first name only
NodeNameSearch_firstOnly(name, i) == [name |-> name, i |-> i]

\* the loop of lines 849-854: the suffixes accumulate in the stream
RECURSIVE NodeNameSearch(_, _)
NodeNameSearch(name, i) ==
  IF HasSceneNode(name)
  THEN NodeNameSearch(name \o "_" \o IntText(i), i + 1)
  ELSE [name |-> name, i |-> i]

\* Vector3::operator-
VectorMinus(a, b) == Vector3(a.x - b.x, a.y - b.y, a.z - b.z)

\* Visual::AttachBoundingBox.  createEntity throws for the name of an entity
\* the scene manager has, which ends the call after the node is created.
AttachBoundingBox(min, max) ==
  LET nodeName == NodeNameSearch(BoxNodeBase, 0).name
      created == [SceneNode(NodeName) EXCEPT !.inheritScale = FALSE]
      inserted == IF "unit_box_U1V1" \notin entities
                  THEN InsertMesh("unit_box_U1V1")
                  ELSE [ogre |-> ogreMeshes, threw |-> FALSE]
      entityName == nodeName \o "_OBJ"
      threw == \/ inserted.threw
               \/ entityName \in entities
               \/ "unit_box_U1V1" \notin DOMAIN inserted.ogre
      diff == VectorMinus(max, min)
  IN  /\ boundingBoxNode' = nodeName
      /\ ogreMeshes' = inserted.ogre
      /\ IF threw
         THEN /\ sceneNodes' = Put(sceneNodes, nodeName, created)
              /\ UNCHANGED entities
         ELSE /\ entities' = entities \cup {entityName}
              /\ sceneNodes' =
                   Put(sceneNodes, nodeName,
                       [created EXCEPT
                          !.objects = <<[name |-> entityName,
                                         material |-> "Gazebo/GreenTransparent",
                                         queryFlags |-> 0]>>,
                          !.scale = OgreVector3(diff.x, diff.y, diff.z),
                          !.visible = FALSE])

(***************************************************************************)
(* The calls on the visuals of the scene.                                  *)
(***************************************************************************)
Call_ShowSelectionBox ==
  /\ ~crashed
  /\ \E this \in Visuals, value \in BOOLEAN :
       /\ ShowSelectionBox(this, value)
       /\ lastCall' = Call("ShowSelectionBox", [this |-> this, value |-> value])
  /\ UNCHANGED <<graphVars, loadVars, lineVars, boxVars, visualState, simVars>>

Call_AttachVisual ==
  /\ ~crashed
  /\ \E this \in Visuals, vis \in Visuals :
       /\ AttachVisual(this, vis)
       /\ lastCall' = Call("AttachVisual", [this |-> this, vis |-> vis])
  /\ UNCHANGED <<selectionVars, loadVars, lineVars, boxVars, visualState, simVars>>

Call_DetachVisual ==
  /\ ~crashed
  /\ \E this \in Visuals, vis \in Visuals :
       /\ DetachVisual(this, vis)
       /\ lastCall' = Call("DetachVisual", [this |-> this, vis |-> vis])
  /\ UNCHANGED <<selectionVars, crashed, loadVars, lineVars, boxVars, visualState,
                 simVars>>

Call_Load ==
  /\ ~crashed
  /\ Len(attachedObjects) < MaxObjects
  /\ \E p \in LoadParams :
       /\ Load(p)
       /\ lastCall' = Call("Load", p)
  /\ UNCHANGED <<selectionVars, graphVars, lineVars, boxVars, simVars>>
  /\ UNCHANGED <<renderEngineEnabled, ancestors, transparency, ribbonTrail>>

Call_AddDynamicLine ==
  /\ ~crashed
  /\ linesCreated < MaxLines
  /\ \E type \in RenderOpTypes :
       /\ AddDynamicLine(type)
       /\ lastCall' = Call("AddDynamicLine", type)
  /\ UNCHANGED <<selectionVars, graphVars, loadVars, boxVars, simVars>>
  /\ UNCHANGED <<renderEngineEnabled, ancestors, nodePosition, nodeOrientation,
                 transparency, myMaterialName, origMaterialName, materials,
                 ribbonTrail, entities, ogreMeshes>>

Call_DeleteDynamicLine ==
  /\ ~crashed
  /\ \E line \in 1..MaxLines :
       /\ DeleteDynamicLine(line)
       /\ lastCall' = Call("DeleteDynamicLine", line)
  /\ UNCHANGED <<selectionVars, graphVars, loadVars, boxVars, visualState, simVars>>

Call_AttachBoundingBox ==
  /\ ~crashed
  /\ Cardinality({n \in DOMAIN sceneNodes : sceneNodes[n].parent = NodeName}) < MaxBoxes
  /\ \E min \in Corners, max \in Corners :
       /\ AttachBoundingBox(min, max)
       /\ lastCall' = Call("AttachBoundingBox", [min |-> min, max |-> max])
  /\ UNCHANGED <<selectionVars, graphVars, loadVars, lineVars, simVars>>
  /\ UNCHANGED <<renderEngineEnabled, ancestors, nodePosition, nodeOrientation,
                 attachedObjects, transparency, myMaterialName, origMaterialName,
                 materials, ribbonTrail>>

\* Visual::InsertMesh, called with a mesh of the MeshManager; the record of
\* the call tells whether it threw
Call_InsertMesh ==
  /\ ~crashed
  /\ \E name \in DOMAIN Meshes :
       /\ ogreMeshes' = InsertMesh(name).ogre
       /\ lastCall' = [op |-> "InsertMesh", arg |-> name, threw |-> InsertMesh(name).threw]
  /\ UNCHANGED <<sceneVars, simVars>>
  /\ UNCHANGED <<renderEngineEnabled, ancestors, nodePosition, nodeOrientation,
                 attachedObjects, transparency, myMaterialName, origMaterialName,
                 materials, ribbonTrail, entities>>

(***************************************************************************)
(* Initial states and specifications.                                      *)
(***************************************************************************)
\* no model: the state of Part 1 while the visual is studied
SimQuiet ==
  /\ children = [m \in ModelIds |-> <<>>]
  /\ grippers = [m \in ModelIds |-> 0]
  /\ joints = [m \in ModelIds |-> 0]
  /\ isSimbody = FALSE
  /\ relativePose = [m \in ModelIds |-> "unset"]
  /\ initialRelativePose = [m \in ModelIds |-> "unset"]
  /\ jointPub = [m \in ModelIds |-> <<>>]
  /\ stack = <<>>
  /\ trace = <<>>

\* the visual after its constructor (Visual::Init), under one of the given
\* render engine settings and below one of the given chains of scene nodes
VisInit(enabled, chains) ==
  /\ renderEngineEnabled \in enabled
  /\ ancestors \in chains
  /\ nodePosition = OgreVector3(0, 0, 0)
  /\ nodeOrientation = OgreQuaternion(1, 0, 0, 0)
  /\ attachedObjects = <<>>
  /\ transparency = F(0)
  /\ myMaterialName = ""
  /\ origMaterialName = ""
  /\ materials = [n \in StockMaterials |-> Material(F(Unit), TRUE)]
  /\ ribbonTrail = [created |-> FALSE, visible |-> FALSE, tracks |-> FALSE]
  /\ entities = {}
  /\ ogreMeshes = [n \in {} |-> 0]
  /\ lastCall = Call("Visual", "")

\* the scene after the construction of its visuals, each below one of the
\* given parents: the root scene node (and no parent visual) or a visual
\* constructed before it; the scene manager holds scene nodes of other owners
\* under one of the given sets of names
SceneInit(parents, foreign) ==
  /\ selectionObj = NULL
  /\ selectionObjs = <<>>
  /\ nodeParent \in {f \in [Nodes -> Nodes \cup {NoNode}] :
                       /\ f[RootNode] = NoNode
                       /\ \A v \in Visuals : f[v] \in parents /\ f[v] < v}
  /\ nodeChildren = [n \in Nodes |-> {v \in Visuals : nodeParent[v] = n}]
  /\ visParent = [v \in Visuals |->
                   IF nodeParent[v] = RootNode THEN NULL ELSE nodeParent[v]]
  /\ crashed = FALSE
  /\ meshManager = StockMeshes
  /\ meshManagerCalls = <<>>
  /\ nodeScale = OgreVector3(1, 1, 1)
  /\ lines = <<>>
  /\ linesCreated = 0
  /\ preRenderSignal = <<>>
  /\ sceneNodes \in {[n \in names |-> SceneNode("other")] : names \in foreign}
  /\ boundingBoxNode = ""

\* a scene nobody calls: every visual below the root scene node
SceneQuiet == SceneInit({RootNode}, {{}})

\* a visual nobody calls: the state of Part 2 while SimbodyModel is studied
VisQuiet == VisInit({FALSE}, {<<>>})

\* SimbodyModel::Init on every model of the bounds
InitSim == SimInit /\ VisQuiet /\ SceneQuiet

SpecSim == InitSim /\ [][SimNext]_vars

\* every call on the visual
VisualNext ==
  \/ Call_SetPosition
  \/ Call_SetRotation
  \/ Call_SetPose
  \/ Call_AttachObject
  \/ Call_DetachObjects
  \/ Call_SetCastShadows
  \/ Call_SetTransparency
  \/ Call_SetMaterial
  \/ Call_SetRibbonTrail
  \/ Call_AttachMesh

\* a simulator started without the render engine
InitHeadless == SimQuiet /\ VisInit({FALSE}, {<<>>}) /\ SceneQuiet

SpecHeadless == InitHeadless /\ [][VisualNext]_vars

\* the calls that move the visual
PoseNext ==
  \/ Call_SetPosition
  \/ Call_SetRotation
  \/ Call_SetPose

\* the visual is moved, below every chain of scene nodes of the bounds
InitPose ==
  SimQuiet /\ VisInit(BOOLEAN, SeqsUpTo(AncestorNodes, MaxDepth)) /\ SceneQuiet

SpecPose == InitPose /\ [][PoseNext]_vars

\* the calls that attach objects and set their material and shadow flag
MaterialNext ==
  \/ Call_AttachObject
  \/ Call_AttachMesh
  \/ Call_DetachObjects
  \/ Call_SetMaterial
  \/ Call_SetCastShadows
  \/ Call_SetRibbonTrail

\* objects are attached to the visual and its material is set
InitEither == SimQuiet /\ VisInit(BOOLEAN, {<<>>}) /\ SceneQuiet

SpecMaterial == InitEither /\ [][MaterialNext]_vars

\* the calls that attach objects and make them transparent
TransparencyNext ==
  \/ Call_AttachObject
  \/ Call_DetachObjects
  \/ Call_SetTransparency

\* objects are attached to the visual and its transparency is set
SpecTransparency == InitEither /\ [][TransparencyNext]_vars

\* the calls that select the visuals of a scene and move them in its graph
SceneNext ==
  \/ Call_ShowSelectionBox
  \/ Call_AttachVisual
  \/ Call_DetachVisual

\* the visuals of a scene, constructed below the root or below each other
InitScene == SimQuiet /\ VisInit(BOOLEAN, {<<>>}) /\ SceneInit(Nodes, {{}})

SpecScene == InitScene /\ [][SceneNext]_vars

\* the calls that load the visual
LoadNext ==
  \/ Call_Load

\* a visual that is loaded, in a scene nobody else calls
InitLoad == SimQuiet /\ VisInit(BOOLEAN, {<<>>}) /\ SceneQuiet

SpecLoad == InitLoad /\ [][LoadNext]_vars

\* the calls that add and delete the dynamic lines of the visual
LinesNext ==
  \/ Call_AddDynamicLine
  \/ Call_DeleteDynamicLine

\* a visual whose lines are drawn, in a scene nobody else calls
InitLines == SimQuiet /\ VisInit(BOOLEAN, {<<>>}) /\ SceneQuiet

SpecLines == InitLines /\ [][LinesNext]_vars

\* the calls that attach a bounding box to the visual
BoxNext ==
  \/ Call_AttachBoundingBox

\* a visual in a scene manager that holds scene nodes of other owners, under
\* any of the names the search may meet
InitBox ==
  SimQuiet /\ VisInit(BOOLEAN, {<<>>}) /\ SceneInit({RootNode}, SUBSET ForeignNodeNames)

SpecBox == InitBox /\ [][BoxNext]_vars

\* the calls that insert the meshes of the MeshManager into Ogre
InsertNext ==
  \/ Call_InsertMesh

\* a visual before any mesh is inserted into Ogre
InitInsert == SimQuiet /\ VisInit(BOOLEAN, {<<>>}) /\ SceneQuiet

SpecInsert == InitInsert /\ [][InsertNext]_vars



(***************************************************************************)
(* Claims about SimbodyModel::Init, stated over the trace of a call.       *)
(***************************************************************************)
\* event e occurs in the trace before position p
Before(e, p) == \E q \in 1..(p - 1) : trace[q] = e

Occurs(e) == \E q \in DOMAIN trace : trace[q] = e

Count(e) == Cardinality({q \in DOMAIN trace : trace[q] = e})

\* position p is an invocation of Init on a joint of model m
IsJointInitOf(p, m) ==
  /\ trace[p].ev \in {"JointInit", "JointInitFailed"}
  /\ trace[p].model = m

\* the children of m that SimbodyModel::Init must initialise
Bodies(m) == {c \in 1..Len(children[m]) : children[m][c] \in {"LINK", "MODEL"}}

\* the event of Init being invoked on the c-th child of m
BodyInitInvoked(m, c) ==
  IF children[m][c] = "LINK" THEN Event("LinkInit", m, c) ELSE Event("Call", c, 0)

\* the event of Init having completed on the c-th child of m
BodyInitDone(m, c) ==
  IF children[m][c] = "LINK" THEN Event("LinkInit", m, c) ELSE Event("Return", c, 0)

\* C1: in every call of SimbodyModel::Init, Init has been invoked on every
\* LINK child and every MODEL child of the model before Init is invoked on
\* the first of the model's own joints.
C1_BodiesBeforeJoints ==
  \A m \in ModelIds : \A p \in DOMAIN trace :
    IsJointInitOf(p, m) =>
      \A c \in Bodies(m) : Before(BodyInitInvoked(m, c), p)

\* C1's case: a joint of a model with a LINK child and a MODEL child is
\* being initialised
C1_Witness ==
  /\ Occurs(Event("JointInit", 0, 1))
  /\ \E c \in Bodies(0) : children[0][c] = "LINK"
  /\ \E c \in Bodies(0) : children[0][c] = "MODEL"

\* C2: with a SimbodyPhysics engine, InitModel is invoked with the model
\* exactly once in a call of Init: after every LINK child, nested model and
\* gripper of the model has been initialised, and before Init is invoked on
\* any of the model's joints.
C2_InitModelOnceBetween ==
  \A m \in ModelIds :
    /\ Count(Event("InitModel", m, 0)) <= 1
    /\ Occurs(Event("InitModel", m, 0)) => isSimbody
    /\ (isSimbody /\ Occurs(Event("Return", m, 0))) =>
          Count(Event("InitModel", m, 0)) = 1
    /\ \A p \in DOMAIN trace :
          /\ trace[p] = Event("InitModel", m, 0) =>
                /\ \A c \in Bodies(m) : Before(BodyInitDone(m, c), p)
                /\ \A g \in 1..grippers[m] : Before(Event("GripperInit", m, g), p)
                /\ \A q \in 1..(p - 1) : ~IsJointInitOf(q, m)
          /\ (isSimbody /\ IsJointInitOf(p, m)) =>
                Before(Event("InitModel", m, 0), p)

\* C2's case: the call on a model with a nested model, a gripper and a joint
\* has returned, under a SimbodyPhysics engine
C2_Witness ==
  /\ isSimbody
  /\ Occurs(Event("Return", 0, 0))
  /\ Occurs(Event("JointInit", 0, 1))
  /\ grippers[0] >= 1
  /\ \E c \in Bodies(0) : children[0][c] = "MODEL"

\* no Init of a joint of m has thrown so far
NoJointThrew(m) ==
  \A p \in DOMAIN trace : ~(trace[p].ev = "JointInitFailed" /\ trace[p].model = m)

\* the sequence <<1, ..., n>>
UpTo(n) == [k \in 1..n |-> k]

\* C3: in a call in which no joint's Init throws, exactly one joint message
\* is published on jointPub for each joint, in the order of the joints list,
\* and none before Init has completed on every joint of the model.
C3_OneMessagePerJointInOrder ==
  \A m \in ModelIds :
    /\ (Occurs(Event("Return", m, 0)) /\ NoJointThrew(m)) =>
          jointPub[m] = UpTo(joints[m])
    /\ jointPub[m] = UpTo(Len(jointPub[m]))
    /\ Len(jointPub[m]) <= joints[m]
    /\ \A j \in 1..joints[m] : Count(Event("Publish", m, j)) <= 1
    /\ \A p \in DOMAIN trace :
          (trace[p].ev = "Publish" /\ trace[p].model = m) =>
             \A j \in 1..joints[m] : Before(Event("JointInit", m, j), p)

\* C3's case: the call on a model with two joints has returned and no joint
\* threw
C3_Witness ==
  /\ joints[0] >= 2
  /\ NoJointThrew(0)
  /\ Occurs(Event("Return", 0, 0))

\* C4: if Init of the k-th joint throws, the call returns normally at once:
\* Init is invoked on no later joint, and the call publishes no joint
\* message at all.
C4_FailedJointEndsCallSilently ==
  \A m \in ModelIds : \A p \in DOMAIN trace :
    (trace[p].ev = "JointInitFailed" /\ trace[p].model = m) =>
      /\ p < Len(trace) => trace[p + 1] = Event("Return", m, 0)
      /\ \A f \in DOMAIN stack : stack[f].model = m => p = Len(trace)
      /\ \A q \in DOMAIN trace : q > p => ~IsJointInitOf(q, m)
      /\ \A q \in DOMAIN trace : ~(trace[q].ev = "Publish" /\ trace[q].model = m)
      /\ jointPub[m] = <<>>

\* C4's case: the second joint of the top-level model threw after the first
\* one succeeded, and the call has returned
C4_Witness ==
  /\ Occurs(Event("JointInit", 0, 1))
  /\ Occurs(Event("JointInitFailed", 0, 2))
  /\ joints[0] >= 2
  /\ stack = <<>>

(***************************************************************************)
(* Claims about Visual.                                                    *)
(***************************************************************************)
\* the calls that begin with the check of the render engine flag
GuardedCalls ==
  {"SetPose", "SetRotation", "SetMaterial", "SetTransparency", "SetCastShadows",
   "AttachObject", "DetachObjects", "AttachMesh"}

\* C5: while the render engine is disabled, a call of SetPose, SetRotation,
\* SetMaterial, SetTransparency, SetCastShadows, AttachObject, DetachObjects
\* or AttachMesh changes neither the scene node's position, orientation and
\* attached objects (with their materials and shadow flags) nor the visual's
\* transparency and material name.
C5_DisabledCallsChangeNothing ==
  [][(~renderEngineEnabled /\ lastCall'.op \in GuardedCalls) =>
       UNCHANGED <<nodePosition, nodeOrientation, attachedObjects,
                   transparency, myMaterialName>>]_vars

\* C5's case: a guarded call was made with the render engine disabled, on a
\* visual that has been moved and that has an object attached
C5_Witness ==
  /\ ~renderEngineEnabled
  /\ lastCall.op = "SetRotation"
  /\ lastCall.arg # Quatern(1, 0, 0, 0)
  /\ nodePosition # OgreVector3(0, 0, 0)
  /\ attachedObjects # <<>>

\* a float of the interval [0, 1]
InUnitInterval(f) == ~f.nan /\ 0 <= f.v /\ f.v <= Unit

\* t clamped to [0, 1] as the claim words it: 0 when t < 0, 1 when t > 1, and
\* t otherwise
ClampedAsClaimed(t) ==
  IF FLess(t, F(0)) THEN F(0)
  ELSE IF FLess(F(Unit), t) THEN F(Unit)
  ELSE t

\* C6: the value GetTransparency returns lies in [0, 1] in every reachable
\* state: it is 0 after construction, and after SetTransparency(t) with the
\* render engine enabled it is t clamped to [0, 1].
C6_TransparencyInUnitInterval ==
  /\ InUnitInterval(GetTransparency)
  /\ lastCall.op = "Visual" => GetTransparency = F(0)
  /\ (renderEngineEnabled /\ lastCall.op = "SetTransparency") =>
        GetTransparency = ClampedAsClaimed(lastCall.arg)

\* the world-frame orientation of the visual's scene node: its orientation
\* composed with those of all the nodes above it
DerivedOrientation == Derived(NodeChain).orientation

\* C7: with the render engine enabled, GetWorldPose returns the world-frame
\* pose of the scene node: its derived position and its derived orientation.
C7_WorldPoseIsDerivedPose ==
  renderEngineEnabled =>
    GetWorldPose =
      Pose3d(Vector3(DerivedPosition.x, DerivedPosition.y, DerivedPosition.z),
             Quatern(DerivedOrientation.w, DerivedOrientation.x,
                     DerivedOrientation.y, DerivedOrientation.z))

C9_SetMaterialReachesEveryObject ==
  (/\ renderEngineEnabled
   /\ lastCall.op = "SetMaterial"
   /\ lastCall.arg \in StockMaterials) =>
     /\ \A i \in DOMAIN attachedObjects :
          attachedObjects[i].material = NodeName \o "_MATERIAL_" \o lastCall.arg
     /\ GetMaterialName = NodeName \o "_MATERIAL_" \o lastCall.arg

\* C10: SetMaterial(m) with a name m the material manager cannot resolve
\* leaves the visual as it was: no attached object's material changes, no
\* material is cloned, and neither myMaterialName nor origMaterialName
\* changes.
C10_UnresolvedMaterialChangesNothing ==
  [][(/\ renderEngineEnabled
      /\ lastCall'.op = "SetMaterial"
      /\ lastCall'.arg # ""
      /\ lastCall'.arg \notin DOMAIN materials) =>
       UNCHANGED <<attachedObjects, materials, myMaterialName, origMaterialName>>]_vars

(***************************************************************************)
(* Claims about the visuals of a scene.                                    *)
(***************************************************************************)
\* the visuals a selection object is attached to
Selected ==
  {selectionObjs[i].visual : i \in DOMAIN selectionObjs} \ {NULL}

\* C11: across any sequence of ShowSelectionBox calls on any visuals, one
\* shared SelectionObj is created and loaded at most once, and at most one
\* visual is selected: after v.ShowSelectionBox(true) the selection object is
\* attached to v and to no other visual, and after ShowSelectionBox(false)
\* on any visual it is attached to no visual.
C11_OneSharedSelection ==
  /\ Len(selectionObjs) <= 1
  /\ \A i \in DOMAIN selectionObjs : selectionObjs[i].loads <= 1
  /\ Cardinality(Selected) <= 1
  /\ lastCall.op = "ShowSelectionBox" =>
       /\ Len(selectionObjs) = 1
       /\ selectionObj = 1
       /\ selectionObjs[1].loads = 1
       /\ Selected = IF lastCall.arg.value THEN {lastCall.arg.this} ELSE {}

\* ShowSelectionBox(true) on the second visual has attached the one selection
\* object to it
C11_Witness ==
  /\ lastCall = Call("ShowSelectionBox", [this |-> 2, value |-> TRUE])
  /\ Selected = {2}
  /\ Len(selectionObjs) = 1

\* the scene nodes that have the node of visual v among their children
ParentsOf(v) == {n \in Nodes : v \in nodeChildren[n]}

\* C12: after p.AttachVisual(v) for a visual v whose scene node has a parent
\* node, v's scene node is a child of p's scene node and of no other node,
\* and v's parent is p; after p.DetachVisual(v), v's scene node is not a
\* child of p's scene node and v's parent is NULL.
C12_AttachAndDetachVisual ==
  [][/\ (lastCall'.op = "AttachVisual" /\ nodeParent[lastCall'.arg.vis] # NoNode) =>
          /\ ~crashed'
          /\ {n \in Nodes : lastCall'.arg.vis \in nodeChildren'[n]} =
               {lastCall'.arg.this}
          /\ nodeParent'[lastCall'.arg.vis] = lastCall'.arg.this
          /\ visParent'[lastCall'.arg.vis] = lastCall'.arg.this
     /\ lastCall'.op = "DetachVisual" =>
          /\ lastCall'.arg.vis \notin nodeChildren'[lastCall'.arg.this]
          /\ visParent'[lastCall'.arg.vis] = NULL]_vars

\* the first visual, constructed below the root scene node, has been
\* attached to the second visual
C12_Witness ==
  /\ lastCall = Call("AttachVisual", [this |-> 2, vis |-> 1])
  /\ ~crashed
  /\ ParentsOf(1) = {2}
  /\ visParent[1] = 2

(***************************************************************************)
(* Claims about Visual::Load.                                              *)
(***************************************************************************)
\* C13: when Load runs with the render engine enabled and mesh name
\* "unit_box", the tiled box mesh is created through MeshManager::CreateBox
\* only if the MeshManager does not already have a mesh of that name; a
\* second Load with the same tiling does not call CreateBox again.
C13_CreateBoxOnlyIfAbsent ==
  (lastCall.op = "Load" /\ renderEngineEnabled /\ lastCall.arg.mesh = "unit_box") =>
    \A i \in DOMAIN meshManagerCalls :
      meshManagerCalls[i].op = "CreateBox" => ~meshManagerCalls[i].hasMesh

(***************************************************************************)
(* Claims about the dynamic lines.                                         *)
(***************************************************************************)
\* the number of connections of the visual's Update to the pre-render signal
UpdateConnections ==
  Cardinality({i \in DOMAIN preRenderSignal : preRenderSignal[i] = UpdateSlot})

C15_BoundingBoxNodeIsNew ==
  [][lastCall'.op = "AttachBoundingBox" =>
       /\ NodeNameSearch(BoxNodeBase, 0).i <= Cardinality(DOMAIN sceneNodes)
       /\ ~HasSceneNode(boundingBoxNode')
       /\ DOMAIN sceneNodes' = DOMAIN sceneNodes \cup {boundingBoxNode'}
       /\ \A n \in DOMAIN sceneNodes : sceneNodes'[n] = sceneNodes[n]
       /\ sceneNodes'[boundingBoxNode'].parent = NodeName
       /\ ~sceneNodes'[boundingBoxNode'].visible
       /\ ~sceneNodes'[boundingBoxNode'].inheritScale
       /\ sceneNodes'[boundingBoxNode'].scale =
            OgreVector3(lastCall'.arg.max.x - lastCall'.arg.min.x,
                        lastCall'.arg.max.y - lastCall'.arg.min.y,
                        lastCall'.arg.max.z - lastCall'.arg.min.z)]_vars

\* a second bounding box of the visual, created where a scene node of another
\* owner holds the name the first search step tries: the search has passed
\* three names
C15_Witness ==
  /\ lastCall.op = "AttachBoundingBox"
  /\ boundingBoxNode = BoxNodeBase \o "_0_1"
  /\ {BoxNodeBase, BoxNodeBase \o "_0"} \subseteq DOMAIN sceneNodes
  /\ sceneNodes[BoxNodeBase].parent = NodeName
  /\ sceneNodes[BoxNodeBase \o "_0"].parent = "other"
  /\ sceneNodes[boundingBoxNode].scale = OgreVector3(1, 2, 3)

(***************************************************************************)
(* Claims about Visual::InsertMesh.                                        *)
(***************************************************************************)
\* C16: InsertMesh copies every submesh's indices unchanged: for every
\* submesh and every j below its index count, the j-th entry written into
\* the index buffer equals the submesh's j-th index, for every index value a
\* submesh can hold (those of 65536 and above included).
C16_IndicesCopiedUnchanged ==
  \A name \in DOMAIN ogreMeshes :
    /\ Len(ogreMeshes[name].subMeshes) = GetSubMeshCount(Meshes[name])
    /\ \A i \in DOMAIN ogreMeshes[name].subMeshes :
         /\ Len(ogreMeshes[name].subMeshes[i].indexBuffer) =
              Len(Meshes[name].subMeshes[i].indices)
         /\ \A j \in DOMAIN ogreMeshes[name].subMeshes[i].indexBuffer :
              ogreMeshes[name].subMeshes[i].indexBuffer[j] =
                Meshes[name].subMeshes[i].indices[j]

\* C17: InsertMesh on a mesh with zero submeshes creates nothing in the
\* rendering engine; on a mesh whose max or min bounding-box corner is not
\* finite it raises an error that its own handler of Ogre exceptions does not
\* swallow, and it neither sets bounds on nor loads the rendering-engine mesh.
C17_EmptyAndUnboundedMeshes ==
  [][lastCall'.op = "InsertMesh" =>
       LET mesh == Meshes[lastCall'.arg]
       IN  /\ GetSubMeshCount(mesh) = 0 => ogreMeshes' = ogreMeshes
           /\ (GetSubMeshCount(mesh) > 0 /\ (~mesh.maxIsFinite \/ ~mesh.minIsFinite)) =>
                /\ lastCall'.threw
                /\ lastCall'.arg \in DOMAIN ogreMeshes' =>
                     /\ ~ogreMeshes'[lastCall'.arg].boundsSet
                     /\ ~ogreMeshes'[lastCall'.arg].loaded]_vars

=============================================================================
